---- MODULE Spec2Model ----
(***************************************************************************)
(* Verification model of tozny/utils-go:                                   *)
(*   - lifecycle.Manager / connectionmanager.ConnectionManager             *)
(*     (src/lifecycle/manager.go, src/connectionmanager/...: same code),   *)
(*   - the legacy utils.ConnectionManager (src/unnamed/part_000),          *)
(*   - utils.Await (src/retry.go and its older copy src/unnamed/part_019)  *)
(*     and utils.AwaitInterval (src/retry.go),                             *)
(*   - identity.JWKS: Set and Middleware (src/databasev2/db.go),           *)
(*   - queue.SQSQueue.BatchEnqueueMessages (src/unnamed/part_002),         *)
(*   - server.RequestAuthMiddleware, server.AuthMiddleware and the older   *)
(*     utils.E3dbAuthHandler (src/server/middleware.go, part_008).         *)
(*                                                                         *)
(* Granularity: one action per stretch of code between two blocking or     *)
(* communicating operations of a goroutine (channel rendezvous, WaitGroup  *)
(* Wait, goroutine start, return of an application hook).  An unbuffered   *)
(* channel operation is a joint step of the sender and the receiver.       *)
(***************************************************************************)
EXTENDS Integers, Sequences, FiniteSets, TLC

\* ------------------------------------------------------------------ bounds
NItems == 2
NCallers == 2
MaxWork == 3
MaxArgs == 2

Items == 1..NItems
Callers == 1..NCallers

VARIABLES
    collPc,      \* position of the collector goroutine started by NewManager
    collIdx,     \* index of the range loop over closers (number of iterations begun)
    closers,     \* the collector's slice closers: sequence of items whose Close is held
    stopwg,      \* counter of stopwg
    closerSt,    \* the goroutines started by the range loop, in order: [item, st]
    closeCalls,  \* per item: how many times its Close method was invoked
    wg,          \* counter of Manager.WG
    inits,       \* the initializer goroutines, in start order: [item, st, lc]
    pc,          \* per calling goroutine: the call it is in (or has last returned from)
    ncalls,      \* work handed to the manager so far: items passed, Close and Wait calls
    closeCalled, \* whether Manager.Close has ever been called
    seen,        \* number of different items passed to the manager so far
    doneAtClose, \* legacy manager: the goroutines whose Initialize had returned when
                 \* Close was called
    aw,          \* the state of a call of Await
    ai,          \* the state of a call of AwaitInterval
    jw,          \* a JWKS value, the clock it reads and the request it last served
    sq,          \* the state of a call of SQSQueue.BatchEnqueueMessages
    rq           \* the request served by the authentication middleware

vars == <<collPc, collIdx, closers, stopwg, closerSt, closeCalls, wg, inits,
          pc, ncalls, closeCalled, seen, doneAtClose, aw, ai, jw, sq, rq>>

\* ----------------------------------------------------------------- helpers
RECURSIVE Count(_, _)
Count(x, s) == IF s = <<>> THEN 0
               ELSE (IF Head(s) = x THEN 1 ELSE 0) + Count(x, Tail(s))

ArgLists == UNION {[1..n -> Items] : n \in 1..MaxArgs}

Idle == [op |-> "none", args |-> <<>>, idx |-> 1, step |-> "ret",
         snapC |-> 0, snapI |-> 0]

\* No call of Await is in progress.
NoAwait == [pcA |-> "none"]

\* Nothing of retry.go's AwaitInterval, of the JWKS, of the SQS queue or of
\* the authentication middleware is in use.
NotInUse == [pcA |-> "none"]
LibraryIdle == ai = NotInUse /\ jw = NotInUse /\ sq = NotInUse /\ rq = NotInUse

\* ------------------------------------------------------------- NewManager
InitManager ==
    /\ collPc = "select"
    /\ collIdx = 0
    /\ closers = <<>>
    /\ stopwg = 0
    /\ closerSt = <<>>
    /\ closeCalls = [i \in Items |-> 0]
    /\ wg = 0
    /\ inits = <<>>
    /\ pc = [c \in Callers |-> Idle]
    /\ ncalls = 0
    /\ closeCalled = FALSE
    /\ seen = 0
    /\ doneAtClose = {}

Init == InitManager /\ aw = NoAwait /\ LibraryIdle

\* ------------------------------------------------------- calling goroutines
\* Mutant of LifecycleSteps: the item is initialized before its Close is queued.
LifecycleInitFirst == <<"init", "send">>

\* ManageLifecycle, for each item: m.ManageClose(ic), then
\* m.ManageInitialization(ic).
LifecycleSteps == <<"send", "init">>

\* First blocking point of each exported operation.
FirstStep(op) ==
    CASE op = "ManageInitialization" -> "init"
      [] op = "ManageClose" -> "send"
      [] op = "ManageLifecycle" -> LifecycleSteps[1]
      [] op = "Close" -> "send"
      [] op = "Wait" -> "wait"

\* for _, x := range args: next iteration, or return after the last one.
Advance(p) ==
    IF p.idx >= Len(p.args)
    THEN [p EXCEPT !.step = "ret", !.idx = 1, !.args = <<>>]
    ELSE [p EXCEPT !.idx = @ + 1, !.step = FirstStep(p.op)]

\* The step of a call after the step it is at has been taken.
StepDone(p) ==
    IF p.op = "ManageLifecycle" /\ p.step = LifecycleSteps[1]
    THEN [p EXCEPT !.step = LifecycleSteps[2]]
    ELSE Advance(p)

\* The items are interchangeable, and so are the calling goroutines: a call is
\* made by the lowest-numbered goroutine that is not inside a call, and an item
\* not passed before is the lowest-numbered such item (seen counts the items
\* passed so far).
Range(s) == {s[j] : j \in 1..Len(s)}

Max(a, b) == IF a >= b THEN a ELSE b

RECURSIVE SeenAfter(_, _)
SeenAfter(args, n) ==
    IF Len(args) = 0 THEN n ELSE SeenAfter(Tail(args), Max(n, Head(args)))

RECURSIVE Fresh(_, _)
Fresh(args, n) ==
    IF Len(args) = 0 THEN TRUE
    ELSE Head(args) <= n + 1 /\ Fresh(Tail(args), Max(n, Head(args)))

\* What a call adds to the work the model bounds: one per item passed, one
\* for a call without items (Close, WG.Wait).
Cost(args) == IF Len(args) = 0 THEN 1 ELSE Len(args)

\* A goroutine of the application calls an exported operation.  snapC and
\* snapI record, for Close and WG.Wait, what had been queued and started at
\* the time of the call.
BeginCall(c, op, args) ==
    /\ ncalls + Cost(args) <= MaxWork
    /\ pc[c].step = "ret"
    /\ \A d \in 1..(c - 1) : pc[d].step # "ret"
    /\ Fresh(args, seen)
    /\ seen' = SeenAfter(args, seen)
    /\ ncalls' = ncalls + Cost(args)
    /\ pc' = [pc EXCEPT ![c] =
                [op |-> op, args |-> args, idx |-> 1, step |-> FirstStep(op),
                 snapC |-> IF op = "Close" THEN Len(closers) ELSE 0,
                 snapI |-> IF op \in {"Close", "Wait"} THEN Len(inits) ELSE 0]]
    /\ closeCalled' = (closeCalled \/ op = "Close")
    /\ UNCHANGED <<collPc, collIdx, closers, stopwg, closerSt, closeCalls, wg, inits,
                   doneAtClose, aw, ai, jw, sq, rq>>

\* ----------------------------------------------------- ManageInitialization
\* Mutant of WGAdd: the WG.Add(1) is missing.
WGAddMissing(n) == n

WGAdd(n) == n + 1

WGDone(n) == n - 1

\* m.WG.Add(1); go func(i Initializer) { i.Initialize(); ... }(initializer)
StartInit(c) ==
    /\ pc[c].step = "init"
    /\ wg' = WGAdd(wg)
    /\ inits' = Append(inits, [item |-> pc[c].args[pc[c].idx], st |-> "running",
                               lc |-> (pc[c].op = "ManageLifecycle")])
    /\ pc' = [pc EXCEPT ![c] = StepDone(pc[c])]
    /\ UNCHANGED <<collPc, collIdx, closers, stopwg, closerSt, closeCalls, ncalls,
                   closeCalled, seen, doneAtClose, aw, ai, jw, sq, rq>>

\* Mutant of InitMayRun: the initializers share one goroutine that runs them
\* one after the other.
InitAfterPrevious(k) == \A j \in 1..(k - 1) : inits[j].st = "done"

\* Each initializer has a goroutine of its own, so its progress depends on
\* no other initializer.
InitMayRun(k) == TRUE

\* i.Initialize() returns; m.WG.Done()
InitFinish(k) ==
    /\ k \in 1..Len(inits)
    /\ inits[k].st = "running"
    /\ InitMayRun(k)
    /\ inits' = [inits EXCEPT ![k].st = "done"]
    /\ wg' = WGDone(wg)
    /\ UNCHANGED <<collPc, collIdx, closers, stopwg, closerSt, closeCalls, pc, ncalls,
                   closeCalled, seen, doneAtClose, aw, ai, jw, sq, rq>>

\* i.Initialize() blocks forever: it is application code, nothing bounds it.
InitHang(k) ==
    /\ k \in 1..Len(inits)
    /\ inits[k].st = "running"
    /\ InitMayRun(k)
    /\ inits' = [inits EXCEPT ![k].st = "hung"]
    /\ UNCHANGED <<collPc, collIdx, closers, stopwg, closerSt, closeCalls, wg, pc, ncalls,
                   closeCalled, seen, doneAtClose, aw, ai, jw, sq, rq>>

\* m.WG.Wait()
WGWait(c) ==
    /\ pc[c].op = "Wait"
    /\ pc[c].step = "wait"
    /\ wg = 0
    /\ pc' = [pc EXCEPT ![c].step = "ret"]
    /\ UNCHANGED <<collPc, collIdx, closers, stopwg, closerSt, closeCalls, wg, inits,
                   ncalls, closeCalled, seen, doneAtClose, aw, ai, jw, sq, rq>>

\* ------------------------------------------------ ManageClose and collector
\* Mutant of CollectorLoop: the collector leaves the loop after one closer.
CollectorLeavesLoop == "stopped"

\* The for loop around the select: after a closer is received the collector
\* is back at the select.
CollectorLoop == "select"

\* m.closerChan <- closer.Close   meets   case c := <-closerChan:
\*     stopwg.Add(1); closers = append(closers, c)
SendCloser(c) ==
    /\ pc[c].op \in {"ManageClose", "ManageLifecycle"}
    /\ pc[c].step = "send"
    /\ collPc = "select"
    /\ stopwg' = stopwg + 1
    /\ closers' = Append(closers, pc[c].args[pc[c].idx])
    /\ collPc' = CollectorLoop
    /\ pc' = [pc EXCEPT ![c] = StepDone(pc[c])]
    /\ UNCHANGED <<collIdx, closerSt, closeCalls, wg, inits, ncalls, closeCalled, seen,
                   doneAtClose, aw, ai, jw, sq, rq>>

\* --------------------------------------------------------------------- Close
\* Mutant of ShutdownReady: the shutdown case needs no sender (a closed
\* channel, or a default case that breaks the loop).
ShutdownWithoutClose(c) == TRUE

\* case <-shutdown: is taken only together with a sender, and the only send
\* on shutdown is the one in Close.
ShutdownReady(c) == pc[c].op = "Close" /\ pc[c].step = "send"

\* shutdown <- struct{}{}   meets   case <-shutdown: ... break loop
\* (the sender goes on to stopwg.Wait())
Shutdown(c) ==
    /\ ShutdownReady(c)
    /\ collPc = "select"
    /\ collPc' = IF Len(closers) = 0 THEN "done" ELSE "spawn"
    /\ pc' = [pc EXCEPT ![c].step =
                IF pc[c].op = "Close" /\ pc[c].step = "send" THEN "wait" ELSE @]
    /\ UNCHANGED <<collIdx, closers, stopwg, closerSt, closeCalls, wg, inits, ncalls,
                   closeCalled, seen, doneAtClose, aw, ai, jw, sq, rq>>

\* Mutant of SpawnArg: the function literal reads the loop variable c it
\* shares with the loop, which by then holds the last closer.
SpawnArgShared(k) == closers[Len(closers)]

\* The closer the k-th goroutine of the range loop calls: c is passed to the
\* function literal as an argument, so it is the k-th queued closer.
SpawnArg(k) == closers[k]

\* Mutant of SpawnReady: the loop body waits on stopwg after each goroutine
\* it starts, as the legacy ConnectionManager does.
SpawnAfterWait == collIdx = 0 \/ stopwg = 0

\* Mutant of SpawnReady: the closers are started only once WG is at zero,
\* that is once every initializer has returned.
SpawnAfterInitializers == wg = 0

\* The range loop starts a goroutine and goes on to the next closer without
\* waiting for anything.
SpawnReady == TRUE

\* for _, c := range closers { go func(c func()) { c(); ... }(c) }
CollectorSpawn ==
    /\ collPc = "spawn"
    /\ collIdx < Len(closers)
    /\ SpawnReady
    /\ collIdx' = collIdx + 1
    /\ closerSt' = Append(closerSt, [item |-> SpawnArg(collIdx + 1), st |-> "running"])
    /\ closeCalls' = [closeCalls EXCEPT ![SpawnArg(collIdx + 1)] = @ + 1]
    /\ collPc' = IF collIdx + 1 = Len(closers) THEN "done" ELSE "spawn"
    /\ UNCHANGED <<closers, stopwg, wg, inits, pc, ncalls, closeCalled, seen, doneAtClose, aw, ai, jw, sq, rq>>

\* c() returns; stopwg.Done()
CloserReturn(k) ==
    /\ k \in 1..Len(closerSt)
    /\ closerSt[k].st = "running"
    /\ closerSt' = [closerSt EXCEPT ![k].st = "done"]
    /\ stopwg' = stopwg - 1
    /\ UNCHANGED <<collPc, collIdx, closers, closeCalls, wg, inits, pc, ncalls,
                   closeCalled, seen, doneAtClose, aw, ai, jw, sq, rq>>

\* c() blocks forever: it is application code, nothing bounds it.
CloserHang(k) ==
    /\ k \in 1..Len(closerSt)
    /\ closerSt[k].st = "running"
    /\ closerSt' = [closerSt EXCEPT ![k].st = "hung"]
    /\ UNCHANGED <<collPc, collIdx, closers, stopwg, closeCalls, wg, inits, pc, ncalls,
                   closeCalled, seen, doneAtClose, aw, ai, jw, sq, rq>>

\* Mutant of CloseWaitReady: Close does not wait on stopwg.
CloseDoesNotWait == TRUE

\* stopwg.Wait() in Close
CloseWaitReady == stopwg = 0

CloseWait(c) ==
    /\ pc[c].op = "Close"
    /\ pc[c].step = "wait"
    /\ CloseWaitReady
    /\ pc' = [pc EXCEPT ![c].step = "ret"]
    /\ UNCHANGED <<collPc, collIdx, closers, stopwg, closerSt, closeCalls, wg, inits,
                   ncalls, closeCalled, seen, doneAtClose, aw, ai, jw, sq, rq>>

\* ------------------------------------------------------------ specification
MaxGoroutines == MaxWork

Next ==
    \/ /\ ncalls < MaxWork
       /\ \E c \in Callers, args \in ArgLists :
             \E op \in {"ManageInitialization", "ManageClose", "ManageLifecycle"} :
                BeginCall(c, op, args)
    \/ \E c \in Callers, op \in {"Close", "Wait"} : BeginCall(c, op, <<>>)
    \/ \E c \in Callers : StartInit(c)
    \/ \E c \in Callers : SendCloser(c)
    \/ \E c \in Callers : Shutdown(c)
    \/ \E c \in Callers : CloseWait(c)
    \/ \E c \in Callers : WGWait(c)
    \/ CollectorSpawn
    \/ \E k \in 1..MaxGoroutines : InitFinish(k)
    \/ \E k \in 1..MaxGoroutines : CloserReturn(k)

Spec == Init /\ [][Next]_vars

\* The scheduling the Go runtime guarantees: a goroutine that can take its
\* next step takes it.  A send on an unbuffered channel is taken once the
\* collector stays at the select (blocked senders are served in order); an
\* application hook either returns or blocks forever; nothing obliges the
\* application to make another call.
Fairness ==
    /\ \A c \in Callers :
          /\ WF_vars(StartInit(c))
          /\ WF_vars(SendCloser(c))
          /\ WF_vars(Shutdown(c))
          /\ WF_vars(CloseWait(c))
          /\ WF_vars(WGWait(c))
    /\ WF_vars(CollectorSpawn)
    /\ \A k \in 1..MaxGoroutines :
          /\ WF_vars(InitFinish(k) \/ InitHang(k))
          /\ WF_vars(CloserReturn(k) \/ CloserHang(k))

\* For the progress claims the hooks of the application may also block forever.
NextLive ==
    \/ Next
    \/ \E k \in 1..MaxGoroutines : InitHang(k)
    \/ \E k \in 1..MaxGoroutines : CloserHang(k)

SpecLive == Init /\ [][NextLive]_vars /\ Fairness

\* ------------------------------------- legacy utils.ConnectionManager
\* The same variables hold the legacy manager's state: an initializer
\* goroutine is "running" (in Initialize), "sending" (Initialize has returned,
\* the goroutine is at cm.closerChan <- initializer.Close) or "done"; a closer
\* goroutine is "spawned" until it calls c().
LegacyOtherVars == <<seen, aw, ai, jw, sq, rq>>

\* DoInit: cm.WG.Add(1); go func() { ... }()
LegacyDoInit(c, i) ==
    /\ ncalls < MaxWork
    /\ pc[c].step = "ret"
    /\ \A d \in 1..(c - 1) : pc[d].step # "ret"
    /\ i <= seen + 1
    /\ seen' = Max(seen, i)
    /\ ncalls' = ncalls + 1
    /\ wg' = wg + 1
    /\ inits' = Append(inits, [item |-> i, st |-> "running", lc |-> FALSE])
    /\ pc' = [pc EXCEPT ![c] = [Idle EXCEPT !.op = "DoInit"]]
    /\ UNCHANGED <<collPc, collIdx, closers, stopwg, closerSt, closeCalls, closeCalled,
                   doneAtClose, aw, ai, jw, sq, rq>>

\* initializer.Initialize() returns
LegacyInitReturn(k) ==
    /\ k \in 1..Len(inits)
    /\ inits[k].st = "running"
    /\ inits' = [inits EXCEPT ![k].st = "sending"]
    /\ UNCHANGED <<collPc, collIdx, closers, stopwg, closerSt, closeCalls, wg, pc, ncalls,
                   closeCalled, doneAtClose>>
    /\ UNCHANGED LegacyOtherVars

\* cm.closerChan <- initializer.Close   meets   case c := <-closerChan:
\*     stopwg.Add(1); closers = append(closers, c)
\* and the sender goes on to cm.WG.Done()
LegacySendCloser(k) ==
    /\ k \in 1..Len(inits)
    /\ inits[k].st = "sending"
    /\ collPc = "select"
    /\ stopwg' = stopwg + 1
    /\ closers' = Append(closers, inits[k].item)
    /\ inits' = [inits EXCEPT ![k].st = "done"]
    /\ wg' = wg - 1
    /\ UNCHANGED <<collPc, collIdx, closerSt, closeCalls, pc, ncalls, closeCalled,
                   doneAtClose>>
    /\ UNCHANGED LegacyOtherVars

\* The application calls cm.Close(): it is at shutdown <- struct{}{}.
LegacyBeginClose(c) ==
    /\ ncalls < MaxWork
    /\ pc[c].step = "ret"
    /\ \A d \in 1..(c - 1) : pc[d].step # "ret"
    /\ ncalls' = ncalls + 1
    /\ pc' = [pc EXCEPT ![c] = [Idle EXCEPT !.op = "Close", !.step = "send"]]
    /\ closeCalled' = TRUE
    /\ doneAtClose' =
          IF closeCalled THEN doneAtClose
          ELSE {k \in 1..Len(inits) : inits[k].st \in {"sending", "done"}}
    /\ UNCHANGED <<collPc, collIdx, closers, stopwg, closerSt, closeCalls, wg, inits>>
    /\ UNCHANGED LegacyOtherVars

\* shutdown <- struct{}{}   meets   case <-shutdown: ... break loop
\* Close returns: it waits for nothing.
LegacyShutdown(c) ==
    /\ pc[c].op = "Close"
    /\ pc[c].step = "send"
    /\ collPc = "select"
    /\ collPc' = IF Len(closers) = 0 THEN "done" ELSE "spawn"
    /\ pc' = [pc EXCEPT ![c].step = "ret"]
    /\ UNCHANGED <<collIdx, closers, stopwg, closerSt, closeCalls, wg, inits, ncalls,
                   closeCalled, doneAtClose>>
    /\ UNCHANGED LegacyOtherVars

\* for _, c := range closers { go func() { c(); stopwg.Done() }() ...
\* The function literal takes no argument: it reads the loop variable c
\* when it runs.
LegacySpawn ==
    /\ collPc = "spawn"
    /\ collIdx < Len(closers)
    /\ collIdx' = collIdx + 1
    /\ closerSt' = Append(closerSt, [item |-> 0, st |-> "spawned"])
    /\ collPc' = "wait"
    /\ UNCHANGED <<closers, stopwg, closeCalls, wg, inits, pc, ncalls, closeCalled,
                   doneAtClose>>
    /\ UNCHANGED LegacyOtherVars

\* The goroutine calls c(), with the value the loop variable has now.
LegacyCloserStart(k) ==
    /\ k \in 1..Len(closerSt)
    /\ closerSt[k].st = "spawned"
    /\ closerSt' = [closerSt EXCEPT ![k] = [item |-> closers[collIdx], st |-> "running"]]
    /\ closeCalls' = [closeCalls EXCEPT ![closers[collIdx]] = @ + 1]
    /\ UNCHANGED <<collPc, collIdx, closers, stopwg, wg, inits, pc, ncalls, closeCalled,
                   doneAtClose>>
    /\ UNCHANGED LegacyOtherVars

\* ... stopwg.Wait() }: the loop body waits until the counter of stopwg is
\* zero before the next iteration.
LegacyLoopWait ==
    /\ collPc = "wait"
    /\ stopwg = 0
    /\ collPc' = IF collIdx = Len(closers) THEN "done" ELSE "spawn"
    /\ UNCHANGED <<collIdx, closers, stopwg, closerSt, closeCalls, wg, inits, pc, ncalls,
                   closeCalled, doneAtClose>>
    /\ UNCHANGED LegacyOtherVars

\* The steps of the goroutines the legacy manager has started.
LegacyGoroutines ==
    \/ \E k \in 1..MaxGoroutines : LegacyInitReturn(k)
    \/ \E k \in 1..MaxGoroutines : LegacySendCloser(k)
    \/ \E c \in Callers : LegacyShutdown(c)
    \/ LegacySpawn
    \/ \E k \in 1..MaxGoroutines : LegacyCloserStart(k)
    \/ \E k \in 1..MaxGoroutines : CloserReturn(k)
    \/ LegacyLoopWait

NextLegacy ==
    \/ \E c \in Callers, i \in Items : LegacyDoInit(c, i)
    \/ \E c \in Callers : LegacyBeginClose(c)
    \/ \E c \in Callers : BeginCall(c, "Wait", <<>>)
    \/ \E c \in Callers : WGWait(c)
    \/ LegacyGoroutines

SpecLegacy == Init /\ [][NextLegacy]_vars

\* --------------------------------------------------------------- Await
MaxRetriesBound == 36

\* src/retry.go, and the older copy of the file that sleeps after every
\* failed attempt.
Impls == {"retry.go", "part_019"}

\* A time.Duration is an int64 number of nanoseconds, held here as four
\* 16-bit limbs, the least significant first.  time.Second = 1000000000 =
\* 0x3B9ACA00.
OneSecond == <<51712, 15258, 0, 0>>

\* d << 1 in 64 bits
Double(d) ==
    LET a == 2 * d[1]
        b == 2 * d[2] + a \div 65536
        c == 2 * d[3] + b \div 65536
        e == 2 * d[4] + c \div 65536
    IN  <<a % 65536, b % 65536, c % 65536, e % 65536>>

\* d << k (a shift by 64 or more gives 0, as in Go)
RECURSIVE Shl(_, _)
Shl(d, k) == IF k = 0 THEN d ELSE Shl(Double(d), k - 1)

ManagerVars == <<collPc, collIdx, closers, stopwg, closerSt, closeCalls, wg, inits,
                 pc, ncalls, closeCalled, seen, doneAtClose>>

\* Await(ready, maxRetries) is called.
AwaitCalled(impl, m) ==
    [pcA |-> "loop", impl |-> impl, maxRetries |-> m, tries |-> 0, calls |-> 0,
     trues |-> 0, result |-> FALSE, sleeps |-> 0, lastSleep |-> <<0, 0, 0, 0>>]

InitAwait ==
    /\ InitManager
    /\ LibraryIdle
    /\ aw \in {AwaitCalled(impl, m) : impl \in Impls, m \in (-1)..MaxRetriesBound}

\* Mutant of LoopCond: the loop makes maxRetries attempts, not maxRetries + 1.
LoopCondStrict(tries, maxRetries) == tries < maxRetries

\* for tries := 0; tries <= maxRetries; tries++
LoopCond(tries, maxRetries) == tries <= maxRetries

\* retry.go: if tries != maxRetries { time.Sleep(...) }; the older copy
\* sleeps after every failed attempt.
SleepsAfter(impl, tries, maxRetries) == impl = "part_019" \/ tries # maxRetries

\* success := ready() gives true: return true
AwaitReadyTrue ==
    /\ aw.pcA = "loop"
    /\ LoopCond(aw.tries, aw.maxRetries)
    /\ aw' = [aw EXCEPT !.calls = @ + 1, !.trues = @ + 1, !.result = TRUE,
                        !.pcA = "returned"]
    /\ UNCHANGED <<ManagerVars, ai, jw, sq, rq>>

\* success := ready() gives false: sleep (1 * time.Second) << uint(tries),
\* or continue at once
AwaitReadyFalse ==
    /\ aw.pcA = "loop"
    /\ LoopCond(aw.tries, aw.maxRetries)
    /\ aw' = IF SleepsAfter(aw.impl, aw.tries, aw.maxRetries)
             THEN [aw EXCEPT !.calls = @ + 1, !.pcA = "sleep",
                             !.lastSleep = Shl(OneSecond, aw.tries)]
             ELSE [aw EXCEPT !.calls = @ + 1, !.tries = @ + 1]
    /\ UNCHANGED <<ManagerVars, ai, jw, sq, rq>>

\* time.Sleep returns; continue
AwaitWake ==
    /\ aw.pcA = "sleep"
    /\ aw' = [aw EXCEPT !.sleeps = @ + 1, !.tries = @ + 1, !.pcA = "loop"]
    /\ UNCHANGED <<ManagerVars, ai, jw, sq, rq>>

\* the loop ends: return false
AwaitReturnFalse ==
    /\ aw.pcA = "loop"
    /\ ~LoopCond(aw.tries, aw.maxRetries)
    /\ aw' = [aw EXCEPT !.result = FALSE, !.pcA = "returned"]
    /\ UNCHANGED <<ManagerVars, ai, jw, sq, rq>>

NextAwait ==
    \/ AwaitReadyTrue
    \/ AwaitReadyFalse
    \/ AwaitWake
    \/ AwaitReturnFalse

SpecAwait == InitAwait /\ [][NextAwait]_vars

\* ------------------------------------------------------------------- claims
CloseReturned(c) == pc[c].op = "Close" /\ pc[c].step = "ret"

WaitReturned(c) == pc[c].op = "Wait" /\ pc[c].step = "ret"

Running(seq) == {k \in 1..Len(seq) : seq[k].st \in {"running", "hung"}}

\* C1: Close returns only after every closer that was queued before Close was
\* called has run to completion: once a Close call has returned, the goroutine
\* of each of the first snapC closers (those held when Close was called) has
\* been started on that closer and has finished.
C1_CloseReturnsAfterClosers ==
    \A c \in Callers :
        CloseReturned(c) =>
            \A k \in 1..pc[c].snapC :
                /\ k <= Len(closerSt)
                /\ closerSt[k].item = closers[k]
                /\ closerSt[k].st = "done"

C1_Witness ==
    \E c \in Callers : CloseReturned(c) /\ pc[c].snapC >= 2

\* C2: closers run only when Close is called: as long as Close has not been
\* called, no Close method of a queued item has been started.
C2_NoCloserBeforeClose ==
    ~closeCalled =>
        /\ closerSt = <<>>
        /\ \A i \in Items : closeCalls[i] = 0

C2_Witness ==
    ~closeCalled /\ Len(closers) >= 2

\* C3: after Close each queued closer is invoked exactly once: no item's Close
\* is ever invoked more often than it was queued, the k-th goroutine invokes
\* the k-th queued closer, and once Close has returned every item's Close has
\* been invoked exactly as often as it was queued.
C3_EachCloserExactlyOnce ==
    /\ \A i \in Items : closeCalls[i] <= Count(i, closers)
    /\ Len(closerSt) <= Len(closers)
    /\ \A k \in 1..Len(closerSt) : closerSt[k].item = closers[k]
    /\ \A c \in Callers :
           CloseReturned(c) => \A i \in Items : closeCalls[i] = Count(i, closers)

C3_Witness ==
    /\ \E c \in Callers : CloseReturned(c)
    /\ Len(closers) = 2
    /\ closers[1] # closers[2]

\* C5: the counter of WG always equals the number of started initializers that
\* have not finished, it is never negative, and a WG.Wait() that has returned
\* returned only after every Initialize started before that call had returned.
C5_WaitGroupCountsInitializers ==
    /\ wg = Cardinality(Running(inits))
    /\ wg >= 0
    /\ \A c \in Callers :
           WaitReturned(c) => \A k \in 1..pc[c].snapI : inits[k].st = "done"

C5_Witness ==
    \E c \in Callers : WaitReturned(c) /\ pc[c].snapI >= 2

\* C7: ManageLifecycle queues an item's Close before it starts the item's
\* Initialize: an item has never more Initialize calls started by
\* ManageLifecycle than Close methods held in closers, and once a Close call
\* has returned, the Close of every item whose Initialize ManageLifecycle
\* started has been invoked.
LifecycleInits(i) == {k \in 1..Len(inits) : inits[k].lc /\ inits[k].item = i}

C7_CloseQueuedBeforeInitialize ==
    /\ \A i \in Items : Cardinality(LifecycleInits(i)) <= Count(i, closers)
    /\ (\E c \in Callers : CloseReturned(c)) =>
           \A i \in Items : LifecycleInits(i) # {} => closeCalls[i] >= 1

C7_Witness ==
    /\ \E c \in Callers : CloseReturned(c)
    /\ \E k \in 1..Len(inits) : inits[k].lc /\ inits[k].st = "running"

ManageOps == {"ManageInitialization", "ManageClose", "ManageLifecycle"}

InCall(c, ops) == pc[c].op \in ops /\ pc[c].step # "ret"

Settled(seq) == \A k \in 1..Len(seq) : seq[k].st \in {"done", "hung"}

\* C4: on shutdown the queued closers run in parallel: once the collector has
\* left its select loop, every queued closer is started and returns unless it
\* blocks itself, whatever the other closers do (a closer that never returns
\* holds back no other closer).
C4_ClosersRunInParallel ==
    (collPc # "select") ~> (Len(closerSt) = Len(closers) /\ Settled(closerSt))

C4_Witness ==
    /\ Len(closerSt) = 2
    /\ closerSt[1].st = "hung"
    /\ closerSt[2].st = "done"

\* C6: ManageInitialization starts every initializer in a goroutine of its own
\* and returns without waiting for it: every ManageInitialization call
\* returns, and every initializer that was started returns unless it blocks
\* itself, whatever the other initializers do.
C6_InitializersRunInParallel ==
    /\ \A c \in Callers :
          InCall(c, {"ManageInitialization"}) ~> (pc[c].step = "ret")
    /\ \A k \in 1..MaxGoroutines :
          (k <= Len(inits)) ~> (k <= Len(inits) /\ inits[k].st \in {"done", "hung"})

C6_Witness ==
    /\ Len(inits) >= 2
    /\ inits[1].st = "hung"
    /\ inits[2].st = "done"
    /\ \A c \in Callers : pc[c].step = "ret"

\* The items of a call have been handed to the manager: queued in closers
\* (ManageClose, ManageLifecycle), started (ManageInitialization,
\* ManageLifecycle).
Managed(p, cl, ins) ==
    \A j \in 1..Len(p.args) :
        /\ p.op \in {"ManageClose", "ManageLifecycle"} => p.args[j] \in Range(cl)
        /\ p.op \in {"ManageInitialization", "ManageLifecycle"} =>
               \E k \in 1..Len(ins) :
                   ins[k].item = p.args[j] /\ ins[k].lc = (p.op = "ManageLifecycle")

\* C8: as long as Close has not been called, every call of
\* ManageInitialization, ManageClose or ManageLifecycle returns, from whatever
\* goroutine and in whatever order the calls are made, and when it returns
\* all of its items are managed.
C8_ManageCallsReturn ==
    /\ \A c \in Callers :
          InCall(c, ManageOps) ~> (pc[c].step = "ret" \/ closeCalled)
    /\ [][\A c \in Callers :
             (InCall(c, ManageOps) /\ pc'[c].step = "ret") =>
                 Managed(pc[c], closers', inits')]_vars

C8_Witness ==
    /\ ~closeCalled
    /\ Len(closers) >= 2
    /\ Len(inits) >= 1
    /\ \A c \in Callers : pc[c].step = "ret"
    /\ pc[2].op \in ManageOps

\* C9 (as claimed): in the legacy ConnectionManager the Close of every object
\* whose Initialize had returned when Close was called is run after Close is
\* called: when no goroutine of the manager can take another step, each of
\* these objects has had its Close invoked.
C9_LegacyCloseRunsEveryCloser ==
    (closeCalled /\ ~ENABLED LegacyGoroutines) =>
        \A k \in doneAtClose : closeCalls[inits[k].item] >= 1

\* C9 restricted to the objects whose closer the collector has received (all
\* of them, when WG.Wait() had returned before Close was called).
C9_LegacyCloseRunsQueuedClosers ==
    (closeCalled /\ ~ENABLED LegacyGoroutines) =>
        \A k \in doneAtClose : inits[k].st = "done" => closeCalls[inits[k].item] >= 1

\* C10: for every maxRetries >= 0, Await calls ready at most maxRetries + 1
\* times, stops at the first call that returns true and returns true, and
\* returns false exactly when all maxRetries + 1 calls returned false.
C10_AwaitAttempts ==
    (aw.pcA # "none" /\ aw.maxRetries >= 0) =>
        /\ aw.calls <= aw.maxRetries + 1
        /\ aw.trues <= 1
        /\ aw.trues = 1 => (aw.pcA = "returned" /\ aw.result = TRUE)
        /\ aw.pcA = "returned" =>
              /\ aw.result = TRUE <=> aw.trues = 1
              /\ aw.result = FALSE <=> (aw.calls = aw.maxRetries + 1 /\ aw.trues = 0)

C10_Witness ==
    /\ aw.pcA = "returned"
    /\ aw.maxRetries = 3
    /\ aw.calls = 4
    /\ aw.result = FALSE

\* d >> 1 on the 64 bits of d (logical shift)
Half(d) == [i \in 1..4 |->
              (d[i] \div 2) + (IF i < 4 THEN (d[i + 1] % 2) * 32768 ELSE 0)]

\* d >> k
RECURSIVE Shr(_, _)
Shr(d, k) == IF k = 0 THEN d ELSE Shr(Half(d), k - 1)

\* The int64 held in the limbs d is greater than zero.
Positive(d) == d[4] < 32768 /\ d # <<0, 0, 0, 0>>

\* The time.Duration d is exactly 2^k seconds: it is positive and no bit of
\* one second was shifted out of the 64-bit word.
IsTwoToTheKSeconds(d, k) == Positive(d) /\ Shr(d, k) = OneSecond

\* C11: after failed attempt number k, k < maxRetries, Await of retry.go sleeps
\* (1 second << k), a positive duration equal to 2^k seconds (double the
\* previous one), for every maxRetries the caller can pass; it does not sleep
\* after the last allowed attempt.
C11_BackoffIsExponential ==
    (aw.pcA = "sleep" /\ aw.impl = "retry.go") =>
        /\ aw.tries < aw.maxRetries
        /\ IsTwoToTheKSeconds(aw.lastSleep, aw.tries)

\* C11 for the attempts whose delay fits a time.Duration: k <= 33.
C11_BackoffIsExponentialUpTo33 ==
    (aw.pcA = "sleep" /\ aw.impl = "retry.go" /\ aw.tries <= 33) =>
        /\ aw.tries < aw.maxRetries
        /\ IsTwoToTheKSeconds(aw.lastSleep, aw.tries)

\* ---------------------------------------------------------- AwaitInterval
\* Time is counted in whole seconds.  Only ready() and time.Sleep take time.
MaxInterval == 2
MaxTimeout == 3
MaxReadyTime == 1
MaxChecks == 4

OtherThanAi == <<ManagerVars, aw, jw, sq, rq>>

\* AwaitInterval(ready, interval, timeout) is called at time 0:
\* timeoutTime := time.Now().Add(time.Duration(timeout) * time.Second)
AwaitIntervalCalled(interval, timeout) ==
    [pcA |-> "loop", interval |-> interval, timeout |-> timeout, now |-> 0,
     timeoutTime |-> 0 + timeout, calls |-> 0, trues |-> 0, firstCheck |-> -1,
     slept |-> 0, result |-> FALSE]

InitAwaitInterval ==
    /\ InitManager
    /\ aw = NoAwait
    /\ jw = NotInUse /\ sq = NotInUse /\ rq = NotInUse
    /\ ai \in {AwaitIntervalCalled(i, t) : i \in (-1)..MaxInterval,
                                           t \in (-1)..MaxTimeout}

\* for timeoutTime.After(time.Now())
TimeLeft(timeoutTime, now) == timeoutTime > now

\* time.Sleep(d) returns at once when d <= 0
SleepTime(d) == IF d > 0 THEN d ELSE 0

\* success := ready() gives true after d seconds: return true
AwaitIntervalReadyTrue(d) ==
    /\ ai.pcA = "loop"
    /\ ai.calls < MaxChecks
    /\ TimeLeft(ai.timeoutTime, ai.now)
    /\ ai' = [ai EXCEPT !.calls = @ + 1, !.trues = @ + 1, !.now = @ + d,
                        !.firstCheck = IF @ = -1 THEN ai.now ELSE @,
                        !.result = TRUE, !.pcA = "returned"]
    /\ UNCHANGED OtherThanAi

\* success := ready() gives false after d seconds: time.Sleep(intervalTime)
AwaitIntervalReadyFalse(d) ==
    /\ ai.pcA = "loop"
    /\ ai.calls < MaxChecks
    /\ TimeLeft(ai.timeoutTime, ai.now)
    /\ ai' = [ai EXCEPT !.calls = @ + 1, !.now = @ + d,
                        !.firstCheck = IF @ = -1 THEN ai.now ELSE @,
                        !.pcA = "sleep"]
    /\ UNCHANGED OtherThanAi

\* time.Sleep returns; continue
AwaitIntervalWake ==
    /\ ai.pcA = "sleep"
    /\ ai' = [ai EXCEPT !.now = @ + SleepTime(ai.interval),
                        !.slept = @ + SleepTime(ai.interval), !.pcA = "loop"]
    /\ UNCHANGED OtherThanAi

\* the loop ends: return false
AwaitIntervalReturnFalse ==
    /\ ai.pcA = "loop"
    /\ ~TimeLeft(ai.timeoutTime, ai.now)
    /\ ai' = [ai EXCEPT !.result = FALSE, !.pcA = "returned"]
    /\ UNCHANGED OtherThanAi

NextAwaitInterval ==
    \/ \E d \in 0..MaxReadyTime : AwaitIntervalReadyTrue(d)
    \/ \E d \in 0..MaxReadyTime : AwaitIntervalReadyFalse(d)
    \/ AwaitIntervalWake
    \/ AwaitIntervalReturnFalse

SpecAwaitInterval == InitAwaitInterval /\ [][NextAwaitInterval]_vars

\* C12: for any interval and timeout, AwaitInterval checks ready once
\* immediately (at the time of the call) and retries after each wait of
\* interval seconds; it returns true as soon as a check succeeds, and returns
\* false once timeout seconds have passed without a successful check.
C12_AwaitIntervalChecksThenWaits ==
    /\ ai.pcA = "sleep" => ai.firstCheck = 0
    /\ ai.pcA = "returned" =>
          /\ ai.calls >= 1 /\ ai.firstCheck = 0
          /\ ai.result = TRUE <=> ai.trues = 1
          /\ ai.result = FALSE => ai.now >= ai.timeout
    /\ ai.trues = 1 => (ai.pcA = "returned" /\ ai.result = TRUE)

\* C12 for the calls with timeout > 0.
C12_AwaitIntervalPositiveTimeout ==
    ai.timeout > 0 => C12_AwaitIntervalChecksThenWaits

\* ------------------------------------------------------------------- JWKS
\* identity.JWKS (src/databasev2/db.go holds two copies of the package; Set
\* and the order of Middleware's steps are the same in both).  Time is
\* counted in whole seconds.  Key sets are numbered 1..NKeySets; 0 is the
\* empty jose.JSONWebKeySet{}.  A token is signed with the key of one set.
NKeySets == 2
MaxTTL == 2
MaxClock == 4

KeySets == 1..NKeySets
OtherThanJw == <<ManagerVars, aw, ai, sq, rq>>

\* time.Time{}, the value of JWKS.timeout before the first successful fetch
ZeroTime == 0

StatusOK == 200
StatusUnauthorized == 401
StatusInternalServerError == 500

NoSetCall == [called |-> FALSE, at |-> 0, fetched |-> FALSE, err |-> FALSE,
              ret |-> 0, hadOk |-> FALSE, prevOkAt |-> 0, prevOkSet |-> 0,
              endpoint |-> 0]

NoResponse == [served |-> FALSE, bearer |-> FALSE, parses |-> FALSE, signedBy |-> 0,
               valid |-> FALSE, setCalled |-> FALSE, setErr |-> FALSE, keys |-> 0,
               status |-> 0, handled |-> FALSE]

\* NewJWKS(endpoint, timeout, logger); the endpoint serves key set e.
NewJWKS(ttl, e) ==
    [pcA |-> "ready", TimeoutInterval |-> ttl, timeout |-> ZeroTime, JWKSet |-> 0,
     clock |-> 2, endpoint |-> e, okAt |-> 0, okSet |-> 0, hadOk |-> FALSE,
     last |-> NoSetCall, resp |-> NoResponse]

InitJWKS ==
    /\ InitManager
    /\ aw = NoAwait
    /\ ai = NotInUse /\ sq = NotInUse /\ rq = NotInUse
    /\ jw \in {NewJWKS(ttl, e) : ttl \in (-1)..MaxTTL, e \in KeySets}

\* Mutant of After: the cached set is refetched already at the timeout.
NotBefore(now, t) == now >= t

\* now.After(t)
After(now, t) == now > t

\* jwks.timeout.IsZero() || now.After(jwks.timeout)
MustLoad(j) == j.timeout = ZeroTime \/ After(j.clock, j.timeout)

\* JWKS.Set: the JWKS after the call, the returned set and error, and
\* whether load was called.  loadOk: jwks.load returns no error.
SetOutcome(j, loadOk) ==
    IF MustLoad(j)
    THEN IF loadOk
         THEN [jwks |-> [j EXCEPT !.JWKSet = j.endpoint,
                                  !.timeout = j.clock + j.TimeoutInterval],
               ret |-> j.endpoint, err |-> FALSE, fetched |-> TRUE]
         ELSE [jwks |-> j, ret |-> 0, err |-> TRUE, fetched |-> TRUE]
    ELSE [jwks |-> j, ret |-> j.JWKSet, err |-> FALSE, fetched |-> FALSE]

\* What the call of Set on j with outcome out leaves behind: the JWKS as the
\* code updated it, plus the record of the call and of the last successful fetch.
AfterSet(j, out) ==
    [out.jwks EXCEPT
        !.last = [called |-> TRUE, at |-> j.clock, fetched |-> out.fetched,
                  err |-> out.err, ret |-> out.ret, hadOk |-> j.hadOk,
                  prevOkAt |-> j.okAt, prevOkSet |-> j.okSet, endpoint |-> j.endpoint],
        !.hadOk = j.hadOk \/ (out.fetched /\ ~out.err),
        !.okAt = IF out.fetched /\ ~out.err THEN j.clock ELSE j.okAt,
        !.okSet = IF out.fetched /\ ~out.err THEN j.endpoint ELSE j.okSet]

\* set, err := jwks.Set(ctx)
JWKSSet(loadOk) ==
    /\ jw.pcA = "ready"
    /\ jw' = AfterSet(jw, SetOutcome(jw, loadOk))
    /\ UNCHANGED OtherThanJw

\* A second passes.
JWKSTick ==
    /\ jw.pcA = "ready"
    /\ jw.clock < MaxClock
    /\ jw' = [jw EXCEPT !.clock = @ + 1]
    /\ UNCHANGED OtherThanJw

\* The endpoint starts to serve another key set.
JWKSRotate(e) ==
    /\ jw.pcA = "ready"
    /\ e # jw.endpoint
    /\ jw' = [jw EXCEPT !.endpoint = e]
    /\ UNCHANGED OtherThanJw

\* Mutant of Verifies: the signature is not checked.
VerifiesAlways(signedBy, keys) == TRUE

\* token.Claims(&keys, &claims): the signature verifies against the key set
Verifies(signedBy, keys) == signedBy = keys

Requests == [bearer : BOOLEAN, parses : BOOLEAN, signedBy : KeySets, valid : BOOLEAN]

\* The function returned by JWKS.Middleware serving request req.
JWKSServe(j, req, loadOk) ==
    LET out == SetOutcome(j, loadOk)
        answer(status, setCalled, handled) ==
            [served |-> TRUE, bearer |-> req.bearer, parses |-> req.parses,
             signedBy |-> req.signedBy, valid |-> req.valid,
             setCalled |-> setCalled, setErr |-> setCalled /\ out.err,
             keys |-> IF setCalled THEN out.ret ELSE 0,
             status |-> status, handled |-> handled]
    IN  IF ~req.bearer
        THEN [j EXCEPT !.resp = answer(StatusUnauthorized, FALSE, FALSE)]
        ELSE IF ~req.parses
        THEN [j EXCEPT !.resp = answer(StatusUnauthorized, FALSE, FALSE)]
        ELSE IF out.err
        THEN [AfterSet(j, out) EXCEPT
                 !.resp = answer(StatusInternalServerError, TRUE, FALSE)]
        ELSE IF ~Verifies(req.signedBy, out.ret)
        THEN [AfterSet(j, out) EXCEPT !.resp = answer(StatusUnauthorized, TRUE, FALSE)]
        ELSE IF ~req.valid
        THEN [AfterSet(j, out) EXCEPT !.resp = answer(StatusUnauthorized, TRUE, FALSE)]
        ELSE [AfterSet(j, out) EXCEPT !.resp = answer(StatusOK, TRUE, TRUE)]

JWKSMiddleware(req, loadOk) ==
    /\ jw.pcA = "ready"
    /\ jw' = JWKSServe(jw, req, loadOk)
    /\ UNCHANGED OtherThanJw

NextJWKS ==
    \/ \E loadOk \in BOOLEAN : JWKSSet(loadOk)
    \/ JWKSTick
    \/ \E e \in KeySets : JWKSRotate(e)
    \/ \E req \in Requests, loadOk \in BOOLEAN : JWKSMiddleware(req, loadOk)

SpecJWKS == InitJWKS /\ [][NextJWKS]_vars

\* C13: JWKS.Set is a TTL cache.  A call fetches from the endpoint if and only
\* if no fetch has succeeded yet or the current time is after the time of the
\* last successful fetch plus TimeoutInterval seconds; a call that does not
\* fetch returns, without error, the set stored by the last successful fetch;
\* a call whose fetch succeeds returns exactly the fetched set.
C13_SetIsTTLCache ==
    jw.last.called =>
        /\ jw.last.fetched <=>
              (~jw.last.hadOk \/ jw.last.at > jw.last.prevOkAt + jw.TimeoutInterval)
        /\ ~jw.last.fetched => (~jw.last.err /\ jw.last.ret = jw.last.prevOkSet)
        /\ (jw.last.fetched /\ ~jw.last.err) => jw.last.ret = jw.last.endpoint

\* A call exactly TimeoutInterval seconds after the last successful fetch is
\* answered from the cache although the endpoint now serves another set.
C13_Witness ==
    /\ jw.last.called
    /\ ~jw.last.fetched
    /\ jw.TimeoutInterval > 0
    /\ jw.last.at = jw.last.prevOkAt + jw.TimeoutInterval
    /\ jw.last.ret # jw.last.endpoint

\* C14: JWKS.Middleware invokes the wrapped handler if and only if, in this
\* order, a Bearer token is extracted, it parses as a signed JWT, Set gives the
\* key set, the signature verifies against that key set and the claims
\* validate (Set is called only after the first two succeeded).  A failure of
\* Set answers 500, every other failure answers 401, and in both cases the
\* wrapped handler is not invoked.
C14_MiddlewareAuthenticates ==
    jw.resp.served =>
        /\ jw.resp.setCalled <=> (jw.resp.bearer /\ jw.resp.parses)
        /\ jw.resp.handled <=>
              /\ jw.resp.bearer
              /\ jw.resp.parses
              /\ jw.resp.setCalled /\ ~jw.resp.setErr
              /\ jw.resp.signedBy = jw.resp.keys
              /\ jw.resp.valid
        /\ jw.resp.handled => jw.resp.status = StatusOK
        /\ jw.resp.setErr => (jw.resp.status = StatusInternalServerError /\ ~jw.resp.handled)
        /\ (~jw.resp.handled /\ ~jw.resp.setErr) => jw.resp.status = StatusUnauthorized

\* A request with a token signed by a key of the cached set reaches the
\* handler while the endpoint already serves another set.
C14_Witness ==
    /\ jw.resp.served
    /\ jw.resp.handled
    /\ jw.last.called /\ ~jw.last.fetched
    /\ jw.resp.keys # jw.endpoint

\* ------------------------------------------------- SQSQueue (batch enqueue)
\* The k-th message passed has Body k; the entry built for it gets the Id k
\* (uuid.New() gives a different Id to each entry).
MaxMessages == 12

SQSBatchEnqueueLimit == 10

OtherThanSq == <<ManagerVars, aw, ai, jw, rq>>

Message(k) == [Body |-> k]

\* q.BatchEnqueueMessages(messages) is called with n messages.
BatchEnqueueCalled(n) ==
    [pcA |-> "called", messages |-> [k \in 1..n |-> Message(k)], requests |-> 0,
     entries |-> <<>>, failed |-> <<>>, err |-> "nil"]

InitSQS ==
    /\ InitManager
    /\ aw = NoAwait
    /\ ai = NotInUse /\ jw = NotInUse /\ rq = NotInUse
    /\ sq \in {BatchEnqueueCalled(n) : n \in 0..MaxMessages}

\* Mutant of TooLarge: a batch of exactly the limit is refused as well.
TooLargeInclusive(n) == n >= SQSBatchEnqueueLimit

\* if len(messages) > SQSBatchEnqueueLimit
TooLarge(n) == n > SQSBatchEnqueueLimit

\* return messages, BatchSizeExceededError
BatchEnqueueRefuse ==
    /\ sq.pcA = "called"
    /\ TooLarge(Len(sq.messages))
    /\ sq' = [sq EXCEPT !.failed = sq.messages, !.err = "BatchSizeExceededError",
                        !.pcA = "returned"]
    /\ UNCHANGED OtherThanSq

\* sqsBatchRequestEntries, as built by the loop over messages
RequestEntries(messages) ==
    [k \in 1..Len(messages) |-> [Id |-> k, MessageBody |-> messages[k].Body]]

\* failedToEnqueueMessages: *messageToSQSLookup[*failure.Id] for each entry
\* of the response's Failed list (here in the order of their Ids)
FailedToEnqueue(messages, failedIds) ==
    LET ids == SelectSeq([k \in 1..Len(messages) |-> k], LAMBDA k : k \in failedIds)
    IN  [i \in 1..Len(ids) |-> messages[ids[i]]]

\* One SendMessageBatch request.  SQS answers with an error for the whole
\* request (and an empty response), or without error and with the list
\* Failed of the entries it could not enqueue, which need not be empty.
BatchEnqueueSend(sqsErr, failedIds) ==
    /\ sq.pcA = "called"
    /\ ~TooLarge(Len(sq.messages))
    /\ failedIds \subseteq 1..Len(sq.messages)
    /\ sqsErr => failedIds = {}
    /\ sq' = [sq EXCEPT !.requests = @ + 1,
                        !.entries = RequestEntries(sq.messages),
                        !.failed = FailedToEnqueue(sq.messages, failedIds),
                        !.err = IF sqsErr THEN "SendMessageBatch error" ELSE "nil",
                        !.pcA = "returned"]
    /\ UNCHANGED OtherThanSq

NextSQS ==
    \/ BatchEnqueueRefuse
    \/ \E sqsErr \in BOOLEAN, failedIds \in SUBSET (1..SQSBatchEnqueueLimit) :
          BatchEnqueueSend(sqsErr, failedIds)

SpecSQS == InitSQS /\ [][NextSQS]_vars

\* C15: whenever the list of failed messages returned by
\* SQSQueue.BatchEnqueueMessages is not empty, the returned error is not nil
\* (the contract of Queue.BatchEnqueueMessages).
C15_FailedMessagesComeWithError ==
    (sq.pcA = "returned" /\ sq.failed # <<>>) => sq.err # "nil"

\* C16: with more than SQSBatchEnqueueLimit (10) messages, BatchEnqueueMessages
\* returns all the input messages with BatchSizeExceededError and makes no
\* request to SQS; with 10 or fewer it makes exactly one SendMessageBatch
\* request, with one entry per input message.
C16_BatchLimit ==
    sq.pcA = "returned" =>
        IF Len(sq.messages) > 10
        THEN /\ sq.failed = sq.messages
             /\ sq.err = "BatchSizeExceededError"
             /\ sq.requests = 0
        ELSE /\ sq.requests = 1
             /\ Len(sq.entries) = Len(sq.messages)
             /\ \A k \in 1..Len(sq.messages) :
                    sq.entries[k].MessageBody = sq.messages[k].Body
             /\ \A k, l \in 1..Len(sq.entries) :
                    sq.entries[k].Id = sq.entries[l].Id => k = l

\* A batch of exactly ten messages has been sent in one request.
C16_Witness ==
    /\ sq.pcA = "returned"
    /\ Len(sq.messages) = 10
    /\ sq.requests = 1
    /\ Len(sq.entries) = 10

\* ------------------------------------------- authentication middleware
\* server.RequestAuthMiddleware, server.AuthMiddleware built on it, and the
\* older utils.E3dbAuthHandler (src/unnamed/part_008).  A string is a sequence
\* of chunks; the chunks "/" and " " are the single characters, the others
\* stand for runs of characters without slash or space.
MaxPathLen == 3
MaxHeaderLen == 3

PathChunks == {"/", "healthcheck", "servicecheck", "x"}
HeaderChunks == {"Bearer", " ", "tok"}
Strings(chunks, n) == UNION {[1..k -> chunks] : k \in 0..n}

AuthImpls == {"RequestAuthMiddleware", "AuthMiddleware", "E3dbAuthHandler"}
OtherThanRq == <<ManagerVars, aw, ai, jw, sq>>

HealthCheckPathSuffix == <<"/", "healthcheck">>
ServiceCheckPathSuffix == <<"/", "servicecheck">>
SupportedAuthTypes == {<<"Bearer">>}

\* Mutant of HasSuffix: only the last path segment is compared.
HasLastChunk(str, suffix) == Len(str) >= 1 /\ str[Len(str)] = suffix[Len(suffix)]

\* strings.HasSuffix(str, suffix)
HasSuffix(str, suffix) ==
    /\ Len(str) >= Len(suffix)
    /\ SubSeq(str, Len(str) - Len(suffix) + 1, Len(str)) = suffix

\* strings.Split(str, " ")
RECURSIVE Split(_)
Split(str) ==
    IF \A i \in 1..Len(str) : str[i] # " "
    THEN <<str>>
    ELSE LET i == CHOOSE i \in 1..Len(str) :
                      str[i] = " " /\ \A j \in 1..(i - 1) : str[j] # " "
         IN  <<SubSeq(str, 1, i - 1)>> \o Split(SubSeq(str, i + 1, Len(str)))

\* ExtractBearerToken(r): the token and whether an error is returned
ExtractBearerToken(header) ==
    LET authParts == Split(header)
    IN  IF Len(authParts) # 2
        THEN [token |-> <<>>, err |-> TRUE]
        ELSE IF authParts[1] \notin SupportedAuthTypes
        THEN [token |-> <<>>, err |-> TRUE]
        ELSE [token |-> authParts[2], err |-> FALSE]

\* A request arrives.  authErr, valid: what the authenticator (the
\* RequestAuthenticator, AuthenticateE3DBClient or ValidateToken) will answer.
RequestReceived(impl, path, header, authErr, valid) ==
    [pcA |-> "received", impl |-> impl, path |-> path, header |-> header,
     authErr |-> authErr, valid |-> valid, authCalled |-> FALSE, handled |-> FALSE,
     status |-> 0, clientIDSet |-> FALSE]

InitAuth ==
    /\ InitManager
    /\ aw = NoAwait
    /\ ai = NotInUse /\ jw = NotInUse /\ sq = NotInUse
    /\ rq \in {RequestReceived("RequestAuthMiddleware", path, <<>>, authErr, TRUE) :
                   path \in Strings(PathChunks, MaxPathLen), authErr \in BOOLEAN}
              \cup
              {RequestReceived(r[1], r[2], r[3], r[4], r[5]) :
                   r \in {"AuthMiddleware", "E3dbAuthHandler"}
                         \X Strings(PathChunks, MaxPathLen)
                         \X Strings(HeaderChunks, MaxHeaderLen)
                         \X BOOLEAN \X BOOLEAN}

\* isMonitoringRequest
IsMonitoringRequest(path) ==
    HasSuffix(path, HealthCheckPathSuffix) \/ HasSuffix(path, ServiceCheckPathSuffix)

\* The authentication fails: auth.AuthenticateRequest returns an error
\* (e3dbTokenRequestAuthenticator: no Bearer token, or err != nil || !valid;
\* E3dbAuthHandler makes the same two tests inline).
AuthenticationFails(r) ==
    IF r.impl = "RequestAuthMiddleware"
    THEN r.authErr
    ELSE ExtractBearerToken(r.header).err \/ r.authErr \/ ~r.valid

\* if isMonitoringRequest { h.ServeHTTP(w, r); return }
AuthPassMonitoring ==
    /\ rq.pcA = "received"
    /\ IsMonitoringRequest(rq.path)
    /\ rq' = [rq EXCEPT !.handled = TRUE, !.status = StatusOK, !.pcA = "served"]
    /\ UNCHANGED OtherThanRq

\* HandleError(w, http.StatusUnauthorized, ...); return
AuthReject ==
    /\ rq.pcA = "received"
    /\ ~IsMonitoringRequest(rq.path)
    /\ AuthenticationFails(rq)
    /\ rq' = [rq EXCEPT !.authCalled = TRUE, !.status = StatusUnauthorized,
                        !.pcA = "served"]
    /\ UNCHANGED OtherThanRq

\* r.Header.Set(ToznyClientIDHeader, clientID); h.ServeHTTP(w, r)
AuthAccept ==
    /\ rq.pcA = "received"
    /\ ~IsMonitoringRequest(rq.path)
    /\ ~AuthenticationFails(rq)
    /\ rq' = [rq EXCEPT !.authCalled = TRUE, !.clientIDSet = TRUE, !.handled = TRUE,
                        !.status = StatusOK, !.pcA = "served"]
    /\ UNCHANGED OtherThanRq

NextAuth ==
    \/ AuthPassMonitoring
    \/ AuthReject
    \/ AuthAccept

SpecAuth == InitAuth /\ [][NextAuth]_vars

\* The path ends in /healthcheck or /servicecheck.
EndsInCheckSuffix(path) ==
    /\ Len(path) >= 2
    /\ path[Len(path) - 1] = "/"
    /\ path[Len(path)] \in {"healthcheck", "servicecheck"}

\* The header is "Bearer", one space and a token without spaces.
CarriesBearerToken(header) ==
    /\ Len(header) >= 2
    /\ header[1] = "Bearer"
    /\ header[2] = " "
    /\ \A i \in 3..Len(header) : header[i] # " "

\* C17: for a request whose path does not end in /healthcheck or
\* /servicecheck the wrapped handler is invoked only if the authenticator
\* returned no error (AuthMiddleware, E3dbAuthHandler: a Bearer token was
\* extracted and reported valid without error); otherwise the answer is 401
\* and the handler is not invoked.  A request whose path ends in one of the
\* two suffixes reaches the handler without authentication.
C17_AuthenticationEnforced ==
    rq.pcA = "served" =>
        IF EndsInCheckSuffix(rq.path)
        THEN rq.handled /\ ~rq.authCalled
        ELSE /\ rq.authCalled
             /\ rq.handled <=>
                   IF rq.impl = "RequestAuthMiddleware"
                   THEN ~rq.authErr
                   ELSE CarriesBearerToken(rq.header) /\ rq.valid /\ ~rq.authErr
             /\ ~rq.handled => rq.status = 401

\* A request for /xhealthcheck with a token the authenticator calls invalid
\* has been answered 401.
C17_Witness ==
    /\ rq.pcA = "served"
    /\ rq.impl = "AuthMiddleware"
    /\ rq.path = <<"/", "x", "healthcheck">>
    /\ rq.header = <<"Bearer", " ", "tok">>
    /\ ~rq.valid
    /\ rq.status = 401
    /\ ~rq.handled

\* C18: Close does not wait for initializers.  Whatever the counter of WG,
\* the shutdown signal of a Close call is taken by the collector as soon as it
\* is at its select, the collector then starts every queued closer, and a
\* started closer may return: none of these steps is gated by WG, so the Close
\* of an item can run and complete while the Initialize that ManageLifecycle
\* started for that item is still running.
C18_CloseDoesNotWaitForInitializers ==
    /\ \A c \in Callers :
           (pc[c].op = "Close" /\ pc[c].step = "send" /\ collPc = "select") =>
               ENABLED Shutdown(c)
    /\ (collPc = "spawn" /\ collIdx < Len(closers)) => ENABLED CollectorSpawn
    /\ \A k \in 1..Len(closerSt) :
           closerSt[k].st = "running" => ENABLED CloserReturn(k)

\* The Close of an item has returned while the Initialize that ManageLifecycle
\* started for the same item is still running.
C18_Witness ==
    \E k \in 1..Len(closerSt) :
        /\ closerSt[k].st = "done"
        /\ \E j \in 1..Len(inits) :
               /\ inits[j].lc
               /\ inits[j].item = closerSt[k].item
               /\ inits[j].st = "running"

====
